---- MODULE Spec2Model ----
(***************************************************************************)
(* A model of the logging pipeline of src/3.py (filters, handlers, Logger) *)
(* and of the session persistence of src/5/services/auth.py.               *)
(*                                                                         *)
(* Python values are records [t |-> type name, v |-> sequence of chars].   *)
(* Every except-block of the source that writes to sys.stderr appends the  *)
(* message's fixed prefix to the diagnostics of the call; sys.stderr       *)
(* itself is taken to accept every write.  "raises" always means an        *)
(* instance of Exception, which is what the source's handlers catch.       *)
(***************************************************************************)
EXTENDS Integers, Sequences, FiniteSets, TLC

VARIABLES
    lists,            \* the heap of Python list objects: list id -> contents
    Logger__filters,  \* id of the list held by Logger.__filters
    Logger__handlers, \* id of the list held by Logger.__handlers
    ctor,             \* contents of the argument lists when Logger() ran
    last,             \* what the most recent call did
    file,             \* the bytes of the file a FileHandler appends to
    history,          \* the FileHandler.handle calls made so far
    threads,          \* the position of each thread inside FileHandler.handle
    sockets,          \* the SocketHandler.handle calls made so far
    session_file,     \* the session file of the AuthService
    repo,             \* the ids of the users the UserRepository holds
    current_user,     \* AuthService._current_user (a user id, or None)
    restored,         \* an AuthService constructed on the same file later
    lastOp            \* the last sign_in or sign_out and how it went

loggerVars == <<lists, Logger__filters, Logger__handlers, ctor, last>>
fileVars == <<file, history, threads>>
authVars == <<session_file, repo, current_user, restored, lastOp>>

vars == <<loggerVars, fileVars, sockets, authVars>>

----------------------------------------------------------------------------
(* Bounds                                                                  *)

MaxTextLen == 2
MaxFilters == 2
MaxHandlers == 2
MaxFileTextLen == 1
MaxFileCalls == 2
NumThreads == 2
MaxSocketCalls == 2
MaxUserId == 2

----------------------------------------------------------------------------
(* Strings                                                                 *)

Chars == {"i", "I", "1"}

Digits == {"1"}

RECURSIVE SeqsUpTo(_, _)
SeqsUpTo(S, n) ==
    IF n = 0 THEN {<<>>}
    ELSE LET shorter == SeqsUpTo(S, n - 1)
         IN  shorter \cup {Append(s, c) : s \in shorter, c \in S}

PyStr(s) == [t |-> "str", v |-> s]
PyBytes(s) == [t |-> "bytes", v |-> s]
PyInt(s) == [t |-> "int", v |-> s]

Texts == {PyStr(s) : s \in SeqsUpTo(Chars, MaxTextLen)}

\* what a caller may pass to log() or match(): any string, or the 123 of the demo
Payloads == Texts \cup {PyInt(<<"1">>)}

\* str.upper
UpperChar(c) == IF c = "i" THEN "I" ELSE c

Upper(s) == [k \in 1..Len(s) |-> UpperChar(s[k])]

\* str.startswith
StartsWith(s, p) == Len(p) <= Len(s) /\ SubSeq(s, 1, Len(p)) = p

\* p in s
Contains(s, p) == \E k \in 0..(Len(s) - Len(p)) : SubSeq(s, k + 1, k + Len(p)) = p

----------------------------------------------------------------------------
(* Filters (src/3.py:8-54)                                                 *)

\* A pattern is a sequence of tokens: a literal character, "D" for \d, and
\* "+" for the one-or-more quantifier of the token before it.

\* re.compile accepts the pattern iff no "+" lacks something to repeat
ValidPattern(p) ==
    \A k \in 1..Len(p) : p[k] = "+" => (k > 1 /\ p[k - 1] # "+")

\* re.compile: the pattern as a sequence of atoms [c, plus]
RECURSIVE Compile(_)
Compile(p) ==
    IF p = <<>> THEN <<>>
    ELSE IF Len(p) >= 2 /\ p[2] = "+"
         THEN <<[c |-> p[1], plus |-> TRUE]>> \o Compile(SubSeq(p, 3, Len(p)))
         ELSE <<[c |-> p[1], plus |-> FALSE]>> \o Compile(Tail(p))

AtomAccepts(a, ch) == IF a.c = "D" THEN ch \in Digits ELSE ch = a.c

\* the atoms match a prefix of s[pos..]
RECURSIVE MatchHere(_, _, _)
MatchHere(atoms, s, pos) ==
    IF atoms = <<>> THEN TRUE
    ELSE /\ pos <= Len(s)
         /\ AtomAccepts(Head(atoms), s[pos])
         /\ \/ MatchHere(Tail(atoms), s, pos + 1)
            \/ Head(atoms).plus /\ MatchHere(atoms, s, pos + 1)

\* regex.search(s): a match anywhere in s
Search(atoms, s) == \E pos \in 1..(Len(s) + 1) : MatchHere(atoms, s, pos)

SimpleLogFilter(pattern) == [kind |-> "Simple", pattern |-> pattern]

\* the constructor raises unless re.compile accepts the pattern
ReLogFilter(pattern) ==
    [kind |-> "Re", regex |-> [t |-> pattern.t, v |-> Compile(pattern.v)]]

\* the constructor raises unless level has an upper() method (str, bytes)
LevelFilter(level) == [kind |-> "Level", level |-> [t |-> level.t, v |-> Upper(level.v)]]

\* an implementation of LogFilterProtocol whose match raises
RaisingFilter == [kind |-> "Raising"]

\* The outcome of a match call: [res, raised, errs]
Outcome(res, raised, errs) == [res |-> res, raised |-> raised, errs |-> errs]

\* a mutation of FilterCaught: match has no try/except
FilterUncaught(name) == Outcome(FALSE, TRUE, <<>>)

\* the except-block of a filter's match: report, return False
FilterCaught(name) == Outcome(FALSE, FALSE, <<name>>)

SimpleLogFilter_match(f, text) ==
    IF text.t = "str" /\ f.pattern.t = "str"
    THEN Outcome(Contains(text.v, f.pattern.v), FALSE, <<>>)
    ELSE FilterCaught("SimpleLogFilter error")

ReLogFilter_match(f, text) ==
    IF text.t = "str" /\ f.regex.t = "str"
    THEN Outcome(Search(f.regex.v, text.v), FALSE, <<>>)
    ELSE FilterCaught("ReLogFilter error")

LevelFilter_match(f, text) ==
    IF text.t = "str" /\ f.level.t = "str"
    THEN Outcome(StartsWith(text.v, f.level.v), FALSE, <<>>)
    ELSE FilterCaught("LevelFilter error")

\* f.match(text), dispatched on the class of f
Match(f, text) ==
    CASE f.kind = "Simple" -> SimpleLogFilter_match(f, text)
      [] f.kind = "Re" -> ReLogFilter_match(f, text)
      [] f.kind = "Level" -> LevelFilter_match(f, text)
      [] f.kind = "Raising" -> Outcome(FALSE, TRUE, <<>>)

\* the patterns of the demo, and one that re.compile refuses
Patterns == {<<"D", "+">>, <<"+">>}

\* the filters a caller builds: ReLogFilter(p) exists only for a valid p
FilterPool ==
    { SimpleLogFilter(PyStr(<<"I">>)),
      SimpleLogFilter(PyInt(<<"1">>)),
      LevelFilter(PyStr(<<"i">>)),
      RaisingFilter }
        \cup {ReLogFilter(PyStr(p)) : p \in {q \in Patterns : ValidPattern(q)}}

----------------------------------------------------------------------------
(* Handlers as the Logger sees them (src/3.py:57-59)                       *)

\* an implementation of LogHandlerProtocol; fails: its handle raises
HandlerPool == { [id |-> 1, fails |-> FALSE],
                 [id |-> 2, fails |-> TRUE] }

\* handler.handle(text): whether it raised
Handle(h, text) == h.fails

----------------------------------------------------------------------------
(* Logger (src/3.py:141-162)                                               *)

ListIds == {"filters_arg", "handlers_arg", "filters_new", "handlers_new"}

\* a mutation of ListCopy: the Logger keeps the caller's list object
ListAlias(arg, fresh) == arg

\* list(_filters) if _filters else []: the Logger keeps a new list object
ListCopy(arg, fresh) == fresh

\* Logger.__init__ applied to the caller's lists fl and hl
Logger_init(fl, hl) ==
    /\ lists = [l \in ListIds |->
                  CASE l = "filters_arg" -> fl
                    [] l = "handlers_arg" -> hl
                    [] l = "filters_new" -> IF fl # <<>> THEN fl ELSE <<>>
                    [] l = "handlers_new" -> IF hl # <<>> THEN hl ELSE <<>>]
    /\ Logger__filters = ListCopy("filters_arg", "filters_new")
    /\ Logger__handlers = ListCopy("handlers_arg", "handlers_new")
    /\ ctor = [filters |-> fl, handlers |-> hl]

\* a mutation of Rejects: a false outcome is passed over
RejectsNever(m) == FALSE

\* all(...) stops at the first outcome that is not true
Rejects(m) == ~m.res

\* all(f.match(text) for f in fs): stops at the first False, or at a raise
RECURSIVE EvalFilters(_, _)
EvalFilters(fs, text) ==
    IF fs = <<>>
    THEN [passed |-> TRUE, raised |-> FALSE, errs |-> <<>>, evaluated |-> 0, rejected |-> FALSE]
    ELSE LET m == Match(Head(fs), text)
         IN  IF m.raised
             THEN [passed |-> FALSE, raised |-> TRUE, errs |-> m.errs,
                   evaluated |-> 1, rejected |-> FALSE]
             ELSE IF Rejects(m)
             THEN [passed |-> FALSE, raised |-> FALSE, errs |-> m.errs,
                   evaluated |-> 1, rejected |-> TRUE]
             ELSE LET rest == EvalFilters(Tail(fs), text)
                  IN  [passed |-> rest.passed, raised |-> rest.raised,
                       errs |-> m.errs \o rest.errs,
                       evaluated |-> 1 + rest.evaluated,
                       rejected |-> rest.rejected]

\* a mutation of InvokeGuarded: the call is not wrapped in try/except
InvokeUnguarded(h, text) == [raised |-> Handle(h, text), errs |-> <<>>]

\* try: handler.handle(text) / except Exception: report.  [raised, errs]
InvokeGuarded(h, text) ==
    IF Handle(h, text)
    THEN [raised |-> FALSE, errs |-> <<"Handler error">>]
    ELSE [raised |-> FALSE, errs |-> <<>>]

\* for handler in self.__handlers: ...  [invoked, errs, raised]
RECURSIVE Dispatch(_, _)
Dispatch(hs, text) ==
    IF hs = <<>>
    THEN [invoked |-> <<>>, errs |-> <<>>, raised |-> FALSE]
    ELSE LET r == InvokeGuarded(Head(hs), text)
         IN  IF r.raised
             THEN [invoked |-> <<Head(hs).id>>, errs |-> r.errs, raised |-> TRUE]
             ELSE LET rest == Dispatch(Tail(hs), text)
                  IN  [invoked |-> <<Head(hs).id>> \o rest.invoked,
                       errs |-> r.errs \o rest.errs,
                       raised |-> rest.raised]

\* a mutation of Log_except: the exception leaves log
Log_noexcept(errs) == [errs |-> errs, escaped |-> TRUE]

\* the outer except Exception of log: report, return normally
Log_except(errs) == [errs |-> errs \o <<"Logging error">>, escaped |-> FALSE]

\* the body of Logger.log over the filters fs and the handlers hs
Logger_log(fs, hs, text) ==
    IF text.t # "str"
    THEN LET c == Log_except(<<>>)
         IN  [evaluated |-> 0, passed |-> FALSE, rejected |-> FALSE,
              invoked |-> <<>>, errs |-> c.errs, escaped |-> c.escaped]
    ELSE LET e == EvalFilters(fs, text)
         IN  IF e.raised
             THEN LET c == Log_except(e.errs)
                  IN  [evaluated |-> e.evaluated, passed |-> FALSE, rejected |-> e.rejected,
                       invoked |-> <<>>, errs |-> c.errs, escaped |-> c.escaped]
             ELSE IF ~e.passed
             THEN [evaluated |-> e.evaluated, passed |-> FALSE, rejected |-> e.rejected,
                   invoked |-> <<>>, errs |-> e.errs, escaped |-> FALSE]
             ELSE LET d == Dispatch(hs, text)
                  IN  IF d.raised
                      THEN LET c == Log_except(e.errs \o d.errs)
                           IN  [evaluated |-> e.evaluated, passed |-> TRUE,
                                rejected |-> e.rejected, invoked |-> d.invoked,
                                errs |-> c.errs, escaped |-> c.escaped]
                      ELSE [evaluated |-> e.evaluated, passed |-> TRUE,
                            rejected |-> e.rejected, invoked |-> d.invoked,
                            errs |-> e.errs \o d.errs, escaped |-> FALSE]

NoFilter == [kind |-> "None"]

NoCall ==
    [op |-> "none", text |-> PyStr(<<>>), f |-> NoFilter, res |-> FALSE, raised |-> FALSE,
     evaluated |-> 0, passed |-> FALSE, rejected |-> FALSE, invoked |-> <<>>,
     errs |-> <<>>, escaped |-> FALSE]

\* the caller makes one call at a time
Idle == last.op = "none"

\* logger.log(text)
LogCall(text) ==
    /\ Idle
    /\ LET r == Logger_log(lists[Logger__filters], lists[Logger__handlers], text)
       IN  last' = [op |-> "log", text |-> text, f |-> NoFilter, res |-> FALSE,
                    raised |-> FALSE, evaluated |-> r.evaluated, passed |-> r.passed,
                    rejected |-> r.rejected, invoked |-> r.invoked, errs |-> r.errs,
                    escaped |-> r.escaped]
    /\ UNCHANGED <<lists, Logger__filters, Logger__handlers, ctor>>
    /\ UNCHANGED <<fileVars, sockets, authVars>>

\* f.match(text), called directly
MatchCall(f, text) ==
    /\ Idle
    /\ LET m == Match(f, text)
       IN  last' = [NoCall EXCEPT !.op = "match", !.text = text, !.f = f, !.res = m.res,
                                  !.raised = m.raised, !.errs = m.errs]
    /\ UNCHANGED <<lists, Logger__filters, Logger__handlers, ctor>>
    /\ UNCHANGED <<fileVars, sockets, authVars>>

\* the call has returned; the caller goes on to its next statement
CallerProceeds ==
    /\ ~Idle
    /\ last' = NoCall
    /\ UNCHANGED <<lists, Logger__filters, Logger__handlers, ctor>>
    /\ UNCHANGED <<fileVars, sockets, authVars>>

RECURSIVE ListsUpTo(_, _)
ListsUpTo(S, n) ==
    IF n = 0 THEN {<<>>}
    ELSE LET shorter == ListsUpTo(S, n - 1)
         IN  shorter \cup {Append(s, x) : s \in shorter, x \in S}

\* no FileHandler has been used
FileUnused == file = <<>> /\ history = <<>> /\ threads = <<>>

\* no SocketHandler has been used
SocketUnused == sockets = <<>>

\* None
None == 0

NotBuilt == [built |-> FALSE, user |-> None, repoAt |-> {}]

Absent == [exists |-> FALSE, content |-> <<>>]

NoOp == [op |-> "none", user |-> None, io |-> "ok"]

\* no AuthService has been used
AuthUnused ==
    /\ session_file = Absent
    /\ repo = {}
    /\ current_user = None
    /\ restored = NotBuilt
    /\ lastOp = NoOp

Init ==
    /\ \E fl \in ListsUpTo(FilterPool, MaxFilters), hl \in ListsUpTo(HandlerPool, MaxHandlers) :
          Logger_init(fl, hl)
    /\ last = NoCall
    /\ FileUnused
    /\ SocketUnused
    /\ AuthUnused

Next ==
    \/ \E text \in Payloads : LogCall(text)
    \/ \E f \in FilterPool, text \in Payloads : MatchCall(f, text)
    \/ CallerProceeds

Spec == Init /\ [][Next]_vars

----------------------------------------------------------------------------
(* Properties of Logger.log and of the filters                             *)

TheFilters == lists[Logger__filters]
TheHandlers == lists[Logger__handlers]

HandlerIds(hs) == [k \in 1..Len(hs) |-> hs[k].id]

\* f.match(text) returns true
ReturnsTrue(f, text) == ~Match(f, text).raised /\ Match(f, text).res

AcceptedByAll(fs, text) == \A k \in 1..Len(fs) : ReturnsTrue(fs[k], text)

\* match of one of the three filter classes cannot complete on these operands
MatchFails(f, text) ==
    CASE f.kind = "Simple" -> text.t # "str" \/ f.pattern.t # "str"
      [] f.kind = "Re" -> text.t # "str" \/ f.regex.t # "str"
      [] f.kind = "Level" -> text.t # "str" \/ f.level.t # "str"
      [] OTHER -> FALSE

FilterErrors == {"SimpleLogFilter error", "ReLogFilter error", "LevelFilter error"}

LogOfString == last.op = "log" /\ last.text.t = "str"

\* C1: a log call whose text every filter accepts invokes every handler of
\* the Logger once, in list order, whether or not any of the handlers raises.
C1_FanOut ==
    (LogOfString /\ AcceptedByAll(TheFilters, last.text))
        => last.invoked = HandlerIds(TheHandlers)

\* C1 witness: the first handler raises and the second is still invoked
C1_Witness ==
    /\ LogOfString
    /\ AcceptedByAll(TheFilters, last.text)
    /\ Len(TheFilters) > 0
    /\ Len(TheHandlers) = 2
    /\ TheHandlers[1].fails
    /\ ~TheHandlers[2].fails
    /\ last.invoked = <<2, 1>>
    /\ last.errs = <<"Handler error">>

C3_NoEscape ==
    last.op = "log" =>
        /\ ~last.escaped
        /\ TheFilters = ctor.filters
        /\ TheHandlers = ctor.handlers
        /\ last.text.t # "str" =>
              /\ last.errs = <<"Logging error">>
              /\ last.evaluated = 0
              /\ last.invoked = <<>>

\* C3 witness: log(123) on a Logger that has handlers and no filter
C3_Witness ==
    /\ last.op = "log"
    /\ last.text.t = "int"
    /\ TheFilters = <<>>
    /\ Len(TheHandlers) > 0
    /\ last.errs = <<"Logging error">>
    /\ ~last.escaped

\* C4: a match of SimpleLogFilter, ReLogFilter or LevelFilter that fails
\* inside returns false and does not raise; a log call on a Logger one of
\* whose filters fails on the text invokes no handler and returns normally.
C4_FilterFailureIsNonMatch ==
    /\ (last.op = "match" /\ MatchFails(last.f, last.text))
          => (~last.raised /\ ~last.res)
    /\ (LogOfString /\ \E k \in 1..Len(TheFilters) : MatchFails(TheFilters[k], last.text))
          => (last.invoked = <<>> /\ ~last.escaped)

\* C4 witness: the failing filter is evaluated in a log call that has handlers
C4_Witness ==
    /\ LogOfString
    /\ Len(TheFilters) = 2
    /\ ReturnsTrue(TheFilters[1], last.text)
    /\ MatchFails(TheFilters[2], last.text)
    /\ last.evaluated = 2
    /\ Len(TheHandlers) > 0
    /\ last.invoked = <<>>
    /\ last.errs = <<"SimpleLogFilter error">>

----------------------------------------------------------------------------
(* The caller goes on using the lists it passed to Logger()                *)

\* the filters of the callers that later change their lists
SnapshotFilterPool ==
    { SimpleLogFilter(PyStr(<<"I">>)), ReLogFilter(PyStr(<<"D", "+">>)) }

\* what these callers log: texts each filter accepts or rejects, and 123
SnapshotPayloads ==
    { PyStr(<<>>), PyStr(<<"I">>), PyStr(<<"1">>), PyStr(<<"I", "1">>), PyInt(<<"1">>) }

\* a list's element pool and its bound
PoolOf(l) == IF l = "filters_arg" THEN SnapshotFilterPool ELSE HandlerPool
BoundOf(l) == IF l = "filters_arg" THEN MaxFilters ELSE MaxHandlers

Reverse(q) == [k \in 1..Len(q) |-> q[Len(q) + 1 - k]]

\* l.append(x)
ExtAppend(l, x) ==
    /\ Idle
    /\ Len(lists[l]) < BoundOf(l)
    /\ lists' = [lists EXCEPT ![l] = Append(@, x)]
    /\ UNCHANGED <<Logger__filters, Logger__handlers, ctor, last>>
    /\ UNCHANGED <<fileVars, sockets, authVars>>

\* l.pop(0)
ExtRemove(l) ==
    /\ Idle
    /\ lists[l] # <<>>
    /\ lists' = [lists EXCEPT ![l] = Tail(@)]
    /\ UNCHANGED <<Logger__filters, Logger__handlers, ctor, last>>
    /\ UNCHANGED <<fileVars, sockets, authVars>>

\* l.reverse()
ExtReorder(l) ==
    /\ Idle
    /\ Reverse(lists[l]) # lists[l]
    /\ lists' = [lists EXCEPT ![l] = Reverse(@)]
    /\ UNCHANGED <<Logger__filters, Logger__handlers, ctor, last>>
    /\ UNCHANGED <<fileVars, sockets, authVars>>

InitSnapshot ==
    /\ \E fl \in ListsUpTo(SnapshotFilterPool, MaxFilters),
          hl \in ListsUpTo(HandlerPool, MaxHandlers) : Logger_init(fl, hl)
    /\ last = NoCall
    /\ FileUnused
    /\ SocketUnused
    /\ AuthUnused

NextSnapshot ==
    \/ \E text \in SnapshotPayloads : LogCall(text)
    \/ CallerProceeds
    \/ \E l \in {"filters_arg", "handlers_arg"} : \E x \in PoolOf(l) : ExtAppend(l, x)
    \/ \E l \in {"filters_arg", "handlers_arg"} : ExtRemove(l)
    \/ \E l \in {"filters_arg", "handlers_arg"} : ExtReorder(l)

SpecSnapshot == InitSnapshot /\ [][NextSnapshot]_vars

\* C5: whatever the caller does to the lists it passed to Logger(), the
\* Logger holds the filters and handlers those lists held at construction,
\* in that order, and every log call evaluates and dispatches to those.
C5_Snapshot ==
    /\ TheFilters = ctor.filters
    /\ TheHandlers = ctor.handlers
    /\ LogOfString =>
          /\ last.evaluated <= Len(ctor.filters)
          /\ last.invoked =
                IF AcceptedByAll(ctor.filters, last.text)
                THEN HandlerIds(ctor.handlers) ELSE <<>>

\* C5 witness: a log call after the caller changed both lists, in which the
\* caller's present lists would have rejected the text
C5_Witness ==
    /\ LogOfString
    /\ lists["handlers_arg"] # ctor.handlers
    /\ Len(ctor.handlers) = 2
    /\ ~AcceptedByAll(lists["filters_arg"], last.text)
    /\ AcceptedByAll(ctor.filters, last.text)
    /\ Len(ctor.filters) > 0
    /\ last.invoked = HandlerIds(ctor.handlers)

----------------------------------------------------------------------------
(* FileHandler (src/3.py:62-90)                                            *)

\* The characters of a text: an ASCII letter, a line feed, a character
\* outside ASCII, and a lone surrogate, which UTF-8 cannot encode.
FileChars == {"a", "\n", "U+00E9", "U+D800"}

FileTexts == SeqsUpTo(FileChars, MaxFileTextLen)

IsAscii(c) == c \in {"a", "\n", "[", "]", " ", "?", "TS"}

\* the bytes of one character in UTF-8; <<>> marks UnicodeEncodeError
Utf8Char(c) ==
    CASE c = "U+00E9" -> <<"C3", "A9">>
      [] c = "U+D800" -> <<>>
      [] OTHER -> <<c>>

\* str.encode('ascii', errors='replace') of one character
AsciiReplaceChar(c) == IF IsAscii(c) THEN c ELSE "?"

AsciiReplace(s) == [k \in 1..Len(s) |-> AsciiReplaceChar(s[k])]

Encodable(enc, s) ==
    \A k \in 1..Len(s) : IF enc = "utf-8" THEN s[k] # "U+D800" ELSE IsAscii(s[k])

RECURSIVE Utf8(_)
Utf8(s) == IF s = <<>> THEN <<>> ELSE Utf8Char(Head(s)) \o Utf8(Tail(s))

\* the bytes a text-mode file of encoding enc writes for s (s encodable)
Encode(enc, s) == IF enc = "utf-8" THEN Utf8(s) ELSE s

\* datetime.now().strftime("%Y-%m-%d %H:%M:%S"): "TS" stands for its 19
\* characters, digits and separators
Timestamp == <<"TS">>

\* f"[{timestamp}] {text}\n"
FormatLine(text) == <<"[">> \o Timestamp \o <<"]", " ">> \o text \o <<"\n">>

\* a mutation of StartEncoding: the fallback encoding is kept for later calls
StickyEncoding(hist) ==
    IF hist # <<>> /\ hist[Len(hist)].trace = <<"utf-8", "ascii">> THEN "ascii" ELSE "utf-8"

\* the encoding _handle opens the file with first
StartEncoding(hist) == "utf-8"

\* FileHandler._handle: [trace, writes, raised]
\*   io1, io2: whether the first and the second open() raise IOError
FileHandler__handle(text, enc, io1, io2) ==
    IF io1 = "ioerror"
    THEN [trace |-> <<enc>>, writes |-> <<>>, raised |-> "IOError"]
    ELSE IF Encodable(enc, FormatLine(text))
    THEN [trace |-> <<enc>>, writes |-> <<Encode(enc, FormatLine(text))>>, raised |-> "none"]
    ELSE IF io2 = "ioerror"
    THEN [trace |-> <<enc, "ascii">>, writes |-> <<>>, raised |-> "IOError"]
    ELSE [trace |-> <<enc, "ascii">>,
          writes |-> <<Encode("ascii", AsciiReplace(FormatLine(AsciiReplace(text))))>>,
          raised |-> "none"]

\* the except-blocks of FileHandler.handle
FileHandler_except(raised) ==
    [errs |-> IF raised = "none" THEN <<>>
              ELSE IF raised = "IOError" THEN <<"FileHandler error">>
              ELSE <<"Unexpected FileHandler error">>,
     escaped |-> FALSE]

\* FileHandler.handle: the record of the call
FileHandler_handle(text, hist, io1, io2) ==
    LET r == FileHandler__handle(text, StartEncoding(hist), io1, io2)
        c == FileHandler_except(r.raised)
    IN  [text |-> text, trace |-> r.trace, writes |-> r.writes,
         errs |-> c.errs, escaped |-> c.escaped]

RECURSIVE Flatten(_)
Flatten(ws) == IF ws = <<>> THEN <<>> ELSE Head(ws) \o Flatten(Tail(ws))

IoOutcomes == {"ok", "ioerror"}

\* handler.handle(text), with no other writer of the file
FileHandleCall(text, io1, io2) ==
    /\ Len(history) < MaxFileCalls
    /\ (Encodable("utf-8", text) \/ io1 = "ioerror") => io2 = "ok"
    /\ LET c == FileHandler_handle(text, history, io1, io2)
       IN  /\ history' = Append(history, c)
           /\ file' = file \o Flatten(c.writes)
    /\ UNCHANGED <<loggerVars, threads, sockets, authVars>>

\* no Logger is used
LoggerUnused ==
    /\ Logger_init(<<>>, <<>>)
    /\ last = NoCall

\* FileHandler.__init__ on a path that does not exist yet: an empty file
InitFile ==
    /\ LoggerUnused
    /\ file = <<>>
    /\ history = <<>>
    /\ threads = <<>>
    /\ SocketUnused
    /\ AuthUnused

NextFile ==
    \E text \in FileTexts, io1 \in IoOutcomes, io2 \in IoOutcomes :
        FileHandleCall(text, io1, io2)

SpecFile == InitFile /\ [][NextFile]_vars

----------------------------------------------------------------------------
(* Properties of FileHandler.handle, one caller                            *)

\* the lines of a file: the byte runs that end in a line feed, then the rest
RECURSIVE SplitLines(_, _)
SplitLines(bytes, cur) ==
    IF bytes = <<>> THEN (IF cur = <<>> THEN <<>> ELSE <<cur>>)
    ELSE IF Head(bytes) = "\n" THEN <<cur>> \o SplitLines(Tail(bytes), <<>>)
    ELSE SplitLines(Tail(bytes), Append(cur, Head(bytes)))

LinePrefix == <<"[">> \o Timestamp \o <<"]", " ">>

Delivered(c) == c.writes # <<>>

\* what a delivered call's line holds after the prefix
LineBody(c) ==
    IF c.trace = <<"utf-8">> THEN Utf8(c.text) ELSE AsciiReplace(c.text)

\* C6: with the file empty at the start, after N handle calls that wrote,
\* the file has N lines, the i-th being '[timestamp] ' and the i-th text.
C6_LineCount ==
    LET done == SelectSeq(history, Delivered)
        lines == SplitLines(file, <<>>)
    IN  /\ Len(lines) = Len(done)
        /\ \A i \in 1..Len(done) : lines[i] = LinePrefix \o LineBody(done[i])

\* the line count of C6 for texts that hold no line feed
C6_LineCountWithoutLineFeed ==
    (\A i \in 1..Len(history) : \A k \in 1..Len(history[i].text) : history[i].text[k] # "\n")
        => C6_LineCount

Success(c) ==
    /\ c.trace = <<"utf-8">>
    /\ c.writes = <<Utf8(FormatLine(c.text))>>
    /\ c.errs = <<>>

Recovered(c) ==
    /\ c.trace = <<"utf-8", "ascii">>
    /\ ~Encodable("utf-8", c.text)
    /\ c.writes = <<AsciiReplace(FormatLine(c.text))>>
    /\ c.errs = <<>>

Failed(c) ==
    /\ c.writes = <<>>
    /\ c.errs # <<>>

\* C9: every handle call ends as exactly one of SUCCESS (one UTF-8 write),
\* RECOVERED (the UTF-8 write failed on encoding, one ASCII write with
\* replacement) and FAILED (nothing written, an error reported), and no
\* exception leaves handle; the fallback is tried at most once and only
\* when UTF-8 cannot encode the text; every call opens with UTF-8 first,
\* also the call after a recovered one.
C9_DeliveryStates ==
    \A i \in 1..Len(history) :
        LET c == history[i]
        IN  /\ ~c.escaped
            /\ \/ Success(c) /\ ~Recovered(c) /\ ~Failed(c)
               \/ ~Success(c) /\ Recovered(c) /\ ~Failed(c)
               \/ ~Success(c) /\ ~Recovered(c) /\ Failed(c)
            /\ Head(c.trace) = "utf-8"
            /\ Len(c.trace) <= 2
            /\ Len(c.trace) = 2 => (c.trace[2] = "ascii" /\ ~Encodable("utf-8", c.text))

\* C9 witness: a recovered call, then a call that succeeds on the UTF-8 path
\* with a character the ASCII fallback would have replaced
C9_Witness ==
    /\ Len(history) = 2
    /\ Recovered(history[1])
    /\ Success(history[2])
    /\ history[2].text = <<"U+00E9">>
    /\ file = AsciiReplace(FormatLine(history[1].text)) \o Utf8(FormatLine(history[2].text))

----------------------------------------------------------------------------
(* FileHandler.handle called from several threads on one instance          *)

ThreadIds == 1..NumThreads

\* texts of the concurrent callers: UTF-8 can encode them (no fallback)
ConcTexts == {t \in FileTexts : Encodable("utf-8", t)}

ThreadIdle == [pc |-> "idle", text |-> <<>>, buf |-> <<>>]

\* between open() and the close at the end of the with-block
InWritePath(t) == threads[t].pc \in {"opened", "written"}

\* open(self.filename, "a", encoding='utf-8'): the code takes no lock
FileOpen(t, text) ==
    /\ threads[t].pc = "idle"
    /\ threads' = [threads EXCEPT ![t] = [pc |-> "opened", text |-> text, buf |-> <<>>]]
    /\ UNCHANGED <<loggerVars, file, history, sockets, authVars>>

\* f.write(...): the encoded line goes to the buffer of the file object
FileWrite(t) ==
    /\ threads[t].pc = "opened"
    /\ threads' = [threads EXCEPT ![t].pc = "written",
                                  ![t].buf = Utf8(FormatLine(threads[t].text))]
    /\ UNCHANGED <<loggerVars, file, history, sockets, authVars>>

\* leaving the with-block flushes the buffer: a write(2) in append mode
\* takes the first k bytes, and the flush goes on until none is left
FileFlush(t, k) ==
    /\ threads[t].pc = "written"
    /\ k \in 1..Len(threads[t].buf)
    /\ file' = file \o SubSeq(threads[t].buf, 1, k)
    /\ threads' = [threads EXCEPT ![t].buf = SubSeq(@, k + 1, Len(@))]
    /\ UNCHANGED <<loggerVars, history, sockets, authVars>>

\* the file object is closed and handle returns
FileClose(t) ==
    /\ threads[t].pc = "written"
    /\ threads[t].buf = <<>>
    /\ threads' = [threads EXCEPT ![t].pc = "done"]
    /\ UNCHANGED <<loggerVars, file, history, sockets, authVars>>

InitFileConc ==
    /\ LoggerUnused
    /\ file = <<>>
    /\ history = <<>>
    /\ threads = [t \in ThreadIds |-> ThreadIdle]
    /\ SocketUnused
    /\ AuthUnused

NextFileConc ==
    \E t \in ThreadIds :
        \/ \E text \in ConcTexts : FileOpen(t, text)
        \/ FileWrite(t)
        \/ \E k \in 1..Len(threads[t].buf) : FileFlush(t, k)
        \/ FileClose(t)

SpecFileConc == InitFileConc /\ [][NextFileConc]_vars

\* the orders in which the threads' lines can follow one another
RECURSIVE Concatenations(_)
Concatenations(T) ==
    IF T = {} THEN {<<>>}
    ELSE UNION { {Utf8(FormatLine(threads[t].text)) \o rest : rest \in Concatenations(T \ {t})}
                 : t \in T }

\* no two threads are between open and close at once
C7_MutualExclusion == Cardinality({t \in ThreadIds : InWritePath(t)}) <= 1

\* when all calls have returned the file is their lines, each whole
C7_WholeLines ==
    (\A t \in ThreadIds : threads[t].pc = "done") => file \in Concatenations(ThreadIds)

\* C7: concurrent handle calls on one FileHandler never have two threads
\* between open and close at once, and when all have returned the file is
\* the calls' lines one after another, each whole and contiguous.
C7_ConcurrentHandle == C7_MutualExclusion /\ C7_WholeLines

----------------------------------------------------------------------------
(* SocketHandler (src/3.py:93-116)                                         *)

ConnectOutcomes == {"ok", "timeout", "refused", "oserror"}
SendOutcomes == {"ok", "timeout", "oserror"}

\* a mutation of WithExit: the socket is closed on the success path only
WithExitLeak(failed) == IF failed THEN <<>> ELSE <<"close">>

\* leaving "with socket.socket(...) as s", by return or by exception
WithExit(failed) == <<"close">>

\* the inner except-blocks, and the outer one for what they do not catch
SocketReport(exc) ==
    CASE exc \in {"timeout", "refused"} -> <<"Socket connection error">>
      [] exc = "oserror" -> <<"Socket communication error">>
      [] exc = "UnicodeEncodeError" -> <<"Unexpected SocketHandler error">>
      [] OTHER -> <<>>

\* SocketHandler.handle: the record of the call, ops being the operations
\* on sockets in the order the call makes them
\*   co: how s.connect ends; so: how s.sendall ends, when it is reached
SocketHandler_handle(text, co, so) ==
    LET payload == text \o <<"\n">>
        exc == IF co # "ok" THEN co
               ELSE IF ~Encodable("utf-8", payload) THEN "UnicodeEncodeError"
               ELSE IF so # "ok" THEN so
               ELSE "none"
        sent == co = "ok" /\ Encodable("utf-8", payload)
    IN  [text |-> text, co |-> co, so |-> so,
         ops |-> <<"socket", "settimeout", "connect">>
                   \o (IF sent THEN <<"sendall">> ELSE <<>>)
                   \o WithExit(exc # "none"),
         wire |-> IF sent /\ so = "ok" THEN Utf8(payload) ELSE <<>>,
         errs |-> SocketReport(exc),
         escaped |-> FALSE]

\* handler.handle(text)
SocketHandleCall(text, co, so) ==
    /\ Len(sockets) < MaxSocketCalls
    /\ (co # "ok" \/ ~Encodable("utf-8", text)) => so = "ok"
    /\ sockets' = Append(sockets, SocketHandler_handle(text, co, so))
    /\ UNCHANGED <<loggerVars, fileVars, authVars>>

InitSocket ==
    /\ LoggerUnused
    /\ FileUnused
    /\ sockets = <<>>
    /\ AuthUnused

NextSocket ==
    \E text \in FileTexts, co \in ConnectOutcomes, so \in SendOutcomes :
        SocketHandleCall(text, co, so)

SpecSocket == InitSocket /\ [][NextSocket]_vars

SocketFailed(c) == c.co # "ok" \/ ~Encodable("utf-8", c.text) \/ c.so # "ok"

Count(ops, op) == Cardinality({k \in 1..Len(ops) : ops[k] = op})

\* C8: every handle call creates one socket, makes one connect attempt and
\* at most one send (none unless the connect succeeded), has closed the
\* socket when it returns whatever connect and send did, and does not raise;
\* a failure is reported once and nothing is reported otherwise.
C8_ConnectionLifecycle ==
    \A i \in 1..Len(sockets) :
        LET c == sockets[i]
        IN  /\ Count(c.ops, "socket") = 1
            /\ Count(c.ops, "connect") = 1
            /\ Count(c.ops, "sendall") <= 1
            /\ Count(c.ops, "sendall") = 1 => c.co = "ok"
            /\ c.ops[Len(c.ops)] = "close"
            /\ Count(c.ops, "close") = 1
            /\ ~c.escaped
            /\ Len(c.errs) = IF SocketFailed(c) THEN 1 ELSE 0
            /\ c.wire = IF SocketFailed(c) THEN <<>> ELSE Utf8(c.text) \o <<"\n">>

\* C8 witness: a refused connect, then a send that times out
C8_Witness ==
    /\ Len(sockets) = 2
    /\ sockets[1].co = "refused"
    /\ sockets[1].ops = <<"socket", "settimeout", "connect", "close">>
    /\ sockets[1].errs = <<"Socket connection error">>
    /\ sockets[2].co = "ok"
    /\ sockets[2].so = "timeout"
    /\ sockets[2].ops = <<"socket", "settimeout", "connect", "sendall", "close">>
    /\ sockets[2].errs = <<"Socket connection error">>

----------------------------------------------------------------------------
(* AuthService (src/5/services/auth.py)                                    *)

UserIds == 1..MaxUserId

DigitChars == <<"0", "1", "2", "3", "4", "5", "6", "7", "8", "9">>

\* the decimal digits json.dump writes for a non-negative int
RECURSIVE IntToDigits(_)
IntToDigits(n) ==
    IF n < 10 THEN <<DigitChars[n + 1]>>
    ELSE Append(IntToDigits(n \div 10), DigitChars[(n % 10) + 1])

DigitValue(d) == CHOOSE v \in 0..9 : DigitChars[v + 1] = d

IsDigit(d) == \E v \in 0..9 : DigitChars[v + 1] = d

\* the int json.load reads from decimal digits
RECURSIVE DigitsToInt(_)
DigitsToInt(ds) ==
    IF ds = <<>> THEN 0
    ELSE 10 * DigitsToInt(SubSeq(ds, 1, Len(ds) - 1)) + DigitValue(ds[Len(ds)])

\* json.dump({"id": id}, f)
JsonDump(id) == <<"{", "\"id\"", ":">> \o IntToDigits(id) \o <<"}">>

\* the file contents json.load accepts here: {"id": <int>}, {} and []
IsIdObject(c) ==
    /\ Len(c) >= 5
    /\ SubSeq(c, 1, 3) = <<"{", "\"id\"", ":">>
    /\ c[Len(c)] = "}"
    /\ \A k \in 4..(Len(c) - 1) : IsDigit(c[k])
    /\ (c[4] = "0" => Len(c) = 5)

\* json.load(f) then data["id"]: the id, or the exception raised
ReadSessionId(c) ==
    IF IsIdObject(c) THEN [exc |-> "none", id |-> DigitsToInt(SubSeq(c, 4, Len(c) - 1))]
    ELSE IF c = <<"{", "}">> THEN [exc |-> "KeyError", id |-> None]
    ELSE IF c = <<"[", "]">> THEN [exc |-> "TypeError", id |-> None]
    ELSE [exc |-> "JSONDecodeError", id |-> None]

\* self.repo.get_by_id(id): the user of that id, or None
get_by_id(users, id) == IF id \in users THEN id ELSE None

\* AuthService._load_session: the value _current_user has after __init__
\* (every except-block logs the error and leaves _current_user as None)
AuthService_load_session(f, users) ==
    IF ~f.exists THEN None
    ELSE LET r == ReadSessionId(f.content)
         IN  IF r.exc = "none" THEN get_by_id(users, r.id) ELSE None

\* AuthService._save_session: the session file afterwards
\*   io: "ok", "open_fails" (open raises), "write_fails" (open has truncated
\*   the file, json.dump raises)
AuthService_save_session(user, f, io) ==
    IF user = None THEN f
    ELSE IF io = "open_fails" THEN f
    ELSE IF io = "write_fails" THEN [exists |-> TRUE, content |-> <<>>]
    ELSE [exists |-> TRUE, content |-> JsonDump(user)]

\* a mutation of AuthService_unlink: sign_out leaves the session file
AuthService_keep_file(f) == f

\* if self.session_file.exists(): self.session_file.unlink()
AuthService_unlink(f) == Absent

SaveOutcomes == {"ok", "open_fails", "write_fails"}

\* auth_service.sign_in(user)
sign_in(user, io) ==
    /\ current_user' = user
    /\ session_file' = AuthService_save_session(user, session_file, io)
    /\ lastOp' = [op |-> "sign_in", user |-> user, io |-> io]
    /\ restored' = NotBuilt
    /\ UNCHANGED <<loggerVars, fileVars, sockets, repo>>

\* auth_service.sign_out()
sign_out ==
    /\ current_user' = None
    /\ session_file' = AuthService_unlink(session_file)
    /\ lastOp' = [op |-> "sign_out", user |-> None, io |-> "ok"]
    /\ restored' = NotBuilt
    /\ UNCHANGED <<loggerVars, fileVars, sockets, repo>>

\* AuthService(session_file, repo), constructed now on the same file
NewAuthService ==
    /\ restored' = [built |-> TRUE,
                    user |-> AuthService_load_session(session_file, repo),
                    repoAt |-> repo]
    /\ UNCHANGED <<loggerVars, fileVars, sockets, session_file, repo, current_user, lastOp>>

\* user_repo.add(user)
RepoAdd(id) ==
    /\ id \notin repo
    /\ repo' = repo \cup {id}
    /\ UNCHANGED <<loggerVars, fileVars, sockets, session_file, current_user, restored, lastOp>>

\* user_repo.delete(user)
RepoDelete(id) ==
    /\ id \in repo
    /\ repo' = repo \ {id}
    /\ UNCHANGED <<loggerVars, fileVars, sockets, session_file, current_user, restored, lastOp>>

\* what the session file may hold when the first AuthService is constructed
StartFiles ==
    {Absent}
        \cup {[exists |-> TRUE, content |-> c] : c \in {<<>>, <<"{", "}">>, <<"[", "]">>}}
        \cup {[exists |-> TRUE, content |-> JsonDump(id)] : id \in UserIds}

\* AuthService.__init__
InitAuth ==
    /\ LoggerUnused
    /\ FileUnused
    /\ SocketUnused
    /\ session_file \in StartFiles
    /\ repo \in SUBSET UserIds
    /\ current_user = AuthService_load_session(session_file, repo)
    /\ restored = NotBuilt
    /\ lastOp = NoOp

NextAuth ==
    \/ \E user \in UserIds \cup {None}, io \in SaveOutcomes : sign_in(user, io)
    \/ sign_out
    \/ NewAuthService
    \/ \E id \in UserIds : RepoAdd(id)
    \/ \E id \in UserIds : RepoDelete(id)

SpecAuth == InitAuth /\ [][NextAuth]_vars

is_authorized(user) == user # None

\* the last operation was a sign_in of a user whose file write succeeded
LastSignedIn == lastOp.op = "sign_in" /\ lastOp.user # None /\ lastOp.io = "ok"

LastSignedOut == lastOp.op = "sign_out"

\* C10: after a sign_in of a user (the write succeeding) the service is
\* authorized, after a sign_out it is not and the session file is gone; an
\* AuthService then constructed on the same file and repository holds the
\* user of that sign_in if the repository finds the id, and no user if the
\* repository does not or the last operation was a sign_out.
C10_SessionPersistence ==
    (LastSignedIn \/ LastSignedOut) =>
        /\ is_authorized(current_user) <=> LastSignedIn
        /\ LastSignedIn => current_user = lastOp.user
        /\ LastSignedOut => ~session_file.exists
        /\ restored.built =>
              restored.user =
                  IF LastSignedIn /\ lastOp.user \in restored.repoAt
                  THEN lastOp.user ELSE None

\* C10 witness: a sign_in after a sign_out, and a new service that holds
\* the user; and one that does not, the user having left the repository
C10_Witness ==
    /\ LastSignedIn
    /\ restored.built
    /\ restored.user = lastOp.user
    /\ repo = {}
    /\ AuthService_load_session(session_file, repo) = None
    /\ session_file.content = JsonDump(lastOp.user)

====
